---- MODULE Spec2Model ----
(***************************************************************************)
(* zotero-notion-sync: one-way reconciliation of a Zotero group library    *)
(* (the "Library") into a Notion database (the "Board"), with a back-link  *)
(* note written under every Zotero item.                                   *)
(*                                                                         *)
(* Representation.  A Python str is a sequence of one-character strings    *)
(* (<<"a","1">> is "a1"), so that len, slicing, concatenation, replace and *)
(* the regular-expression search are computed, not assumed.  Python's      *)
(* None is the one-element sequence None below: its element is not a       *)
(* character, so it differs from every str, the empty str included.        *)
(***************************************************************************)
EXTENDS Integers, Sequences, FiniteSets, TLC

\* ------------------------------------------------------------------------
\* Bounds of the model
\* ------------------------------------------------------------------------
\* number of invocations of main() in one behaviour
MaxRuns == 2
\* rows the Board can hold (creates are refused by the guard beyond it)
MaxRows == 4
\* rows per result page of databases.query (Notion's page_size)
PageSize == 2
\* child items of the Library at the start, where update_zotero_notion_note
\* is exercised on its own
MaxChildren == 3
\* calls of update_zotero_notion_note in a row
MaxCalls == 2

\* ------------------------------------------------------------------------
\* Python values
\* ------------------------------------------------------------------------
None == <<"None">>

\* truth value of an Optional[str]: None and "" are falsy
Truthy(x) == x # None /\ x # <<>>

\* a raised RuntimeError, as the value of the expression that raised it
RuntimeError == <<"RuntimeError">>

\* str.replace('-', '')
RECURSIVE StripHyphens(_)
StripHyphens(s) ==
    IF s = <<>> THEN <<>>
    ELSE IF Head(s) = "-" THEN StripHyphens(Tail(s))
    ELSE <<Head(s)>> \o StripHyphens(Tail(s))

\* sep.join(parts)
RECURSIVE Join(_, _)
Join(sep, parts) ==
    IF parts = <<>> THEN <<>>
    ELSE IF Len(parts) = 1 THEN parts[1]
    ELSE parts[1] \o sep \o Join(sep, Tail(parts))

\* ------------------------------------------------------------------------
\* Module constants (__init__.py:15-20)
\* ------------------------------------------------------------------------
TITLE == "Title"
AUTHORS == "Authors"
LINK == "Link"
PUBLISHED_AT == "Published at"
ZOTERO_URL == "Zotero URL"
ZOTERO_ITEM_ID == "Zotero ItemID"

PropNames == {TITLE, AUTHORS, LINK, PUBLISHED_AT, ZOTERO_URL, ZOTERO_ITEM_ID}

\* ------------------------------------------------------------------------
\* Paper (dataclass)
\* ------------------------------------------------------------------------
Paper(title, authors, link, published_at, zotero_url, zotero_item_id, notion_id) ==
    [title |-> title, authors |-> authors, link |-> link,
     published_at |-> published_at, zotero_url |-> zotero_url,
     zotero_item_id |-> zotero_item_id, notion_id |-> notion_id]

NOTION_URL_PREFIX ==
    <<"h","t","t","p","s",":","/","/","n","o","t","i","o","n",".","s","o","/">>

\* Paper.notion_url: None when notion_id is falsy
notion_url(self) ==
    IF Truthy(self.notion_id)
    THEN NOTION_URL_PREFIX \o StripHyphens(self.notion_id)
    ELSE None

\* zotero_eq as a comparison of every field, notion_id included
zotero_eq_full(self, other) ==
    /\ self.title = other.title
    /\ self.authors = other.authors
    /\ self.link = other.link
    /\ self.published_at = other.published_at
    /\ self.zotero_url = other.zotero_url
    /\ self.zotero_item_id = other.zotero_item_id
    /\ self.notion_id = other.notion_id

\* Paper.zotero_eq: every field but notion_id
zotero_eq(self, other) ==
    /\ self.title = other.title
    /\ self.authors = other.authors
    /\ self.link = other.link
    /\ self.published_at = other.published_at
    /\ self.zotero_url = other.zotero_url
    /\ self.zotero_item_id = other.zotero_item_id

\* ------------------------------------------------------------------------
\* Board adapter: decoding of property cells
\*   A cell is a record with a "type" field and a field named after the
\*   type.  The value of a date cell, {"start": s} in the API, is kept as
\*   s itself; a null date or url is None.
\* ------------------------------------------------------------------------
TextObj(s) == [type |-> "text", text |-> [content |-> s]]
TitleCell(s) == [type |-> "title", title |-> <<TextObj(s)>>]
RichTextCell(s) == [type |-> "rich_text", rich_text |-> <<TextObj(s)>>]
UrlCell(u) == [type |-> "url", url |-> u]
DateCell(d) == [type |-> "date", date |-> d]

RECURSIVE notion_object_to_str(_)
\* the decoded parts of a list of objects, RuntimeError if one of them raises
DecodeAll(objs) ==
    LET parts == [n \in 1..Len(objs) |-> notion_object_to_str(objs[n])]
    IN  IF \E n \in 1..Len(objs) : parts[n] = RuntimeError
        THEN <<RuntimeError>> ELSE parts

JoinDecoded(sep, objs) ==
    LET parts == DecodeAll(objs)
    IN  IF parts = <<RuntimeError>> THEN RuntimeError ELSE Join(sep, parts)

\* notion_object_to_str that returns '' for a type it does not know
notion_object_to_str_lenient(obj) ==
    LET type_ == obj.type
    IN  CASE type_ = "title" -> JoinDecoded(<<>>, obj.title)
          [] type_ = "text" -> obj.text.content
          [] type_ = "rich_text" -> JoinDecoded(<<>>, obj.rich_text)
          [] type_ = "select" -> obj.select.name
          [] type_ = "multi_select" -> JoinDecoded(<<",", " ">>, obj.multi_select)
          [] type_ = "date" -> IF Truthy(obj.date) THEN obj.date ELSE <<>>
          [] type_ = "url" -> obj.url
          [] OTHER -> <<>>

notion_object_to_str(obj) ==
    LET type_ == obj.type
    IN  CASE type_ = "title" -> JoinDecoded(<<>>, obj.title)
          [] type_ = "text" -> obj.text.content
          [] type_ = "rich_text" -> JoinDecoded(<<>>, obj.rich_text)
          [] type_ = "select" -> obj.select.name
          [] type_ = "multi_select" -> JoinDecoded(<<",", " ">>, obj.multi_select)
          [] type_ = "date" -> IF Truthy(obj.date) THEN obj.date ELSE <<>>
          [] type_ = "url" -> obj.url
          [] OTHER -> RuntimeError

\* notion_page_to_paper raises: a cell of the page fails to decode
PageRaises(page) ==
    \E n \in PropNames : notion_object_to_str(page.properties[n]) = RuntimeError

\* notion_page_to_paper, for a page whose cells decode
notion_page_to_paper(page) ==
    LET props == page.properties
    IN  Paper(notion_object_to_str(props[TITLE]),
              notion_object_to_str(props[AUTHORS]),
              notion_object_to_str(props[LINK]),
              IF Truthy(notion_object_to_str(props[PUBLISHED_AT]))
              THEN notion_object_to_str(props[PUBLISHED_AT]) ELSE None,
              notion_object_to_str(props[ZOTERO_URL]),
              notion_object_to_str(props[ZOTERO_ITEM_ID]),
              StripHyphens(page.id))

\* ------------------------------------------------------------------------
\* Board adapter: payload of create and update
\* ------------------------------------------------------------------------
\* default value of truncate_text's limit parameter
limit == 2000

ELLIPSIS == <<".",".",".">>

\* the slice text[:k] of Python: a negative k counts from the end
SliceTo(text, k) ==
    IF k >= 0 THEN SubSeq(text, 1, IF k < Len(text) THEN k ELSE Len(text))
    ELSE SubSeq(text, 1, Len(text) + k)

\* truncate_text with "<" for "<=": a text of exactly lim characters is cut
truncate_text_strict(text, lim) ==
    IF Len(text) < lim THEN text
    ELSE SliceTo(text, lim - 3) \o ELLIPSIS

truncate_text(text, lim) ==
    IF Len(text) <= lim THEN text
    ELSE SliceTo(text, lim - 3) \o ELLIPSIS

to_rich_text_dict(text) == RichTextCell(truncate_text(text, limit))

\* the dict of properties: Link and "Published at" only when truthy
paper_to_notion_properties(paper) ==
    LET names == {TITLE, AUTHORS, ZOTERO_URL, ZOTERO_ITEM_ID}
                 \cup (IF Truthy(paper.link) THEN {LINK} ELSE {})
                 \cup (IF Truthy(paper.published_at) THEN {PUBLISHED_AT} ELSE {})
    IN  [n \in names |->
            CASE n = TITLE -> TitleCell(paper.title)
              [] n = AUTHORS -> to_rich_text_dict(paper.authors)
              [] n = ZOTERO_URL -> UrlCell(paper.zotero_url)
              [] n = ZOTERO_ITEM_ID -> to_rich_text_dict(paper.zotero_item_id)
              [] n = LINK -> UrlCell(paper.link)
              [] n = PUBLISHED_AT -> DateCell(paper.published_at)]

\* ------------------------------------------------------------------------
\* Library adapter
\*   A Zotero item is [key, library |-> [id], data |-> [...]]; library.id
\*   is kept as the text Python formats it to.
\* ------------------------------------------------------------------------
ZOTERO_URL_PREFIX ==
    <<"h","t","t","p","s",":","/","/","o","p","e","n","-","z","o","t","e","r","o",
      ".","x","y","z","/","s","e","l","e","c","t","/","g","r","o","u","p","s","/">>

ZOTERO_URL_ITEMS == <<"/","i","t","e","m","s","/">>

zotero_item_to_url(item) ==
    ZOTERO_URL_PREFIX \o item.library.id \o ZOTERO_URL_ITEMS \o item.key

zotero_author_to_str(author) ==
    IF "name" \in DOMAIN author THEN author.name
    ELSE author.firstName \o <<" ">> \o author.lastName

\* pandas.to_datetime followed by str(t.date()), on the three shapes of
\* data["date"] the model stores: "" (NaT, so None), a year "YYYY" (its
\* first of January) and a day "YYYY-MM-DD" (itself)
zotero_to_datetime_str(dt) ==
    IF dt = <<>> THEN None
    ELSE IF Len(dt) = 4 THEN dt \o <<"-","0","1","-","0","1">>
    ELSE dt

zotero_item_to_paper(item) ==
    LET data == item.data
        authors == SelectSeq(data.creators, LAMBDA a : a.creatorType = "author")
    IN  Paper(data.title,
              Join(<<",", " ">>, [n \in 1..Len(authors) |->
                                     zotero_author_to_str(authors[n])]),
              data.url,
              zotero_to_datetime_str(data.date),
              zotero_item_to_url(item),
              item.key,
              None)

NOTION_LINK_TAGS == <<[tag |-> "notion-link"]>>

\* Python's None where a dict or a Paper is expected
NoneRec == [NoneType |-> TRUE]

\* first child that is a note tagged exactly notion-link, None without one
\* find_notion_note that looks for the tag "notion" and so finds no note
find_notion_note_mistagged(children) ==
    LET hits == SelectSeq(children, LAMBDA child :
                    /\ child.data.itemType = "note"
                    /\ <<[tag |-> "notion"]>> = child.data.tags)
    IN  IF hits = <<>> THEN NoneRec ELSE hits[1]

find_notion_note(children) ==
    LET hits == SelectSeq(children, LAMBDA child :
                    /\ child.data.itemType = "note"
                    /\ NOTION_LINK_TAGS = child.data.tags)
    IN  IF hits = <<>> THEN NoneRec ELSE hits[1]

\* [a-z0-9-]
IdChars ==
    {"a","b","c","d","e","f","g","h","i","j","k","l","m","n","o","p","q","r",
     "s","t","u","v","w","x","y","z","0","1","2","3","4","5","6","7","8","9","-"}

\* _re_notion_link matches text at position p: the literal prefix, whose
\* "." stands for any character but a newline, then one identifier
\* character at least
ReMatchesAt(text, p) ==
    /\ p + Len(NOTION_URL_PREFIX) <= Len(text)
    /\ \A n \in 1..Len(NOTION_URL_PREFIX) :
          IF NOTION_URL_PREFIX[n] = "." THEN text[p + n - 1] # "\n"
          ELSE text[p + n - 1] = NOTION_URL_PREFIX[n]
    /\ text[p + Len(NOTION_URL_PREFIX)] \in IdChars

\* the longest run of identifier characters of text from position p
RECURSIVE IdRun(_, _)
IdRun(text, p) ==
    IF p <= Len(text) /\ text[p] \in IdChars
    THEN <<text[p]>> \o IdRun(text, p + 1)
    ELSE <<>>

\* group 1 of the leftmost match, None without a match
find_notion_id(text) ==
    LET starts == {p \in 1..Len(text) : ReMatchesAt(text, p)}
    IN  IF starts = {} THEN None
        ELSE LET p == CHOOSE q \in starts : \A r \in starts : q <= r
             IN  IdRun(text, p + Len(NOTION_URL_PREFIX))

NOTE_HEAD == <<"<","a"," ","h","r","e","f","=","\"">>

NOTE_TAIL == <<"\"",">","N","o","t","i","o","n","<","/","a",">">>

NONE_STR == <<"N","o","n","e">>

\* f'<a href="{paper.notion_url}">Notion</a>': a None url formats as "None"
NoteBody(paper) ==
    LET url == notion_url(paper)
    IN  NOTE_HEAD \o (IF url = None THEN NONE_STR ELSE url) \o NOTE_TAIL

Digits == <<"1","2","3","4","5","6","7","8","9">>

\* key the Library gives to its n-th note
NoteKey(n) == <<"N", Digits[n]>>

\* zotero.children(item_id), in the Library's order
Children(notes, item_id) ==
    SelectSeq(notes, LAMBDA c : c.data.parentItem = item_id)

\* zotero.item_template("note"), tagged and filled, as create_items stores it
NewNote(notes, paper) ==
    [data |-> [key |-> NoteKey(Len(notes) + 1),
               itemType |-> "note",
               parentItem |-> paper.zotero_item_id,
               tags |-> NOTION_LINK_TAGS,
               note |-> NoteBody(paper)]]

\* zotero.update_item(data): the item with data's key takes data
UpdateItem(notes, data) ==
    [n \in 1..Len(notes) |->
        IF notes[n].data.key = data.key THEN [notes[n] EXCEPT !.data = data]
        ELSE notes[n]]

\* update_zotero_notion_note without the look-up of an existing note
update_zotero_notion_note_blind(paper, notes) ==
    Append(notes, NewNote(notes, paper))

\* update_zotero_notion_note: the Library's notes after the call
update_zotero_notion_note(paper, notes) ==
    LET note == find_notion_note(Children(notes, paper.zotero_item_id))
    IN  IF note = NoneRec
        THEN Append(notes, NewNote(notes, paper))
        ELSE UpdateItem(notes, [note.data EXCEPT !.note = NoteBody(paper)])

\* the write update_zotero_notion_note issues: create_items or update_item
NoteWriteKind(paper, notes) ==
    IF find_notion_note(Children(notes, paper.zotero_item_id)) = NoneRec
    THEN "note_create" ELSE "note_update"

\* the notion_id the loop over all_notes leaves on the paper of item key:
\* the last notion-link note whose parentItem is key decides
RECURSIVE ScanNotes(_, _, _)
ScanNotes(all_notes, key, acc) ==
    IF all_notes = <<>> THEN acc
    ELSE LET item == Head(all_notes)
         IN  ScanNotes(Tail(all_notes), key,
                       IF /\ NOTION_LINK_TAGS = item.data.tags
                          /\ item.data.parentItem = key
                       THEN find_notion_id(item.data.note)
                       ELSE acc)

\* get_all_zotero_papers that reads zotero.items() of every type
get_all_zotero_papers_anytype(top, notes) ==
    [n \in 1..Len(top) |->
        [zotero_item_to_paper(top[n]) EXCEPT
            !.notion_id = ScanNotes(notes, top[n].data.key, None)]]

\* get_all_zotero_papers: one Paper per top-level item, in all_top's order
get_all_zotero_papers(top, notes) ==
    LET all_notes == SelectSeq(notes, LAMBDA c : c.data.itemType = "note")
    IN  [n \in 1..Len(top) |->
            [zotero_item_to_paper(top[n]) EXCEPT
                !.notion_id = ScanNotes(all_notes, top[n].data.key, None)]]

\* ------------------------------------------------------------------------
\* The Board (Notion database), as the calls of this program see it
\* ------------------------------------------------------------------------
\* result["next_cursor"] of the last result page
NoCursor == -1

\* identifier the Board gives to its n-th row, hyphenated like a UUID
RowId(n) == <<"a", "-", Digits[n]>>

\* databases.query(db_id, start_cursor): the rows after the cursor, one
\* result page of them, and the cursor of the next page
Query(board, cursor) ==
    LET last == IF cursor + PageSize < Len(board) THEN cursor + PageSize
                ELSE Len(board)
    IN  [results |-> SubSeq(board, cursor + 1, last),
         next_cursor |-> IF last < Len(board) THEN last ELSE NoCursor]

\* a property the payload leaves out is null in the new row
NullCell(n) == IF n = PUBLISHED_AT THEN DateCell(None) ELSE UrlCell(None)

\* pages.create(parent, properties): the created page
PagesCreate(board, properties) ==
    [object |-> "page",
     id |-> RowId(Len(board) + 1),
     properties |-> [n \in PropNames |->
                        IF n \in DOMAIN properties THEN properties[n]
                        ELSE NullCell(n)]]

\* the rows page_id names; the Board reads an identifier with or without
\* its hyphens
RowsNamed(board, page_id) ==
    {n \in 1..Len(board) : StripHyphens(board[n].id) = StripHyphens(page_id)}

\* pages.update(page_id, properties): the Board after the call; a property
\* the payload leaves out keeps its value
PagesUpdate(board, page_id, properties) ==
    [n \in 1..Len(board) |->
        IF n \in RowsNamed(board, page_id)
        THEN [board[n] EXCEPT !.properties =
                 [m \in PropNames |->
                     IF m \in DOMAIN properties THEN properties[m]
                     ELSE board[n].properties[m]]]
        ELSE board[n]]

\* by_zotero_id.get(id): a later row of the snapshot replaces an earlier
\* one with the same key
by_zotero_id(papers, id) ==
    LET hits == SelectSeq(papers, LAMBDA p : p.zotero_item_id = id)
    IN  IF hits = <<>> THEN NoneRec ELSE hits[Len(hits)]

\* ------------------------------------------------------------------------
\* State
\* ------------------------------------------------------------------------
VARIABLES
    rows,           \* the Board: its pages, in listing order
    zitems,         \* the Library: its top-level items, in all_top() order
    znotes,         \* the Library: its child items (notes, attachments)
    pc,             \* position of the process
    runs,           \* invocations of main() so far
    prev,           \* how the previous invocation ended
    err,            \* the exception that ended this invocation, "none" without
    pages,          \* get_all_pages: pages
    next_cursor,    \* get_all_pages: next_cursor
    notion_papers,  \* synchronize: notion_papers
    zotero_papers,  \* synchronize: zotero_papers
    i,              \* synchronize: index of paper in zotero_papers
    notion_paper,   \* synchronize: notion_paper
    ops,            \* write calls issued by this invocation, in order
    rows0,          \* the Board when this invocation started
    znotes0,        \* the Library's child items when this invocation started
    queries,        \* start_cursor of the databases.query calls of this
                    \* invocation, in order (NoCursor: none was passed)
    arg,            \* argument of a function that is exercised on its own
    ret             \* what that function returned

vars == <<rows, zitems, znotes, pc, runs, prev, err, pages, next_cursor,
          notion_papers, zotero_papers, i, notion_paper, ops, rows0, znotes0,
          queries, arg, ret>>

store == <<rows, zitems, znotes>>

locals == <<pages, next_cursor, notion_papers, zotero_papers, i, notion_paper>>

history == <<runs, prev, ops, rows0, znotes0>>

unit == <<arg, ret>>

\* ------------------------------------------------------------------------
\* Initial stores
\* ------------------------------------------------------------------------
K1 == <<"K", "1">>

K2 == <<"K", "2">>

\* key of a paper that was removed from the Library: its row stays
K9 == <<"K", "9">>

GROUP_ID == <<"7">>

\* an authors string one character over the rich-text limit
LongName == [n \in 1..(limit + 1) |-> "x"]

\* data of a top-level item: "full" has a url and a year, "bare" has
\* neither and an editor among its creators, "long" has a long author
ItemData(key, variant) ==
    CASE variant = "full" ->
            [key |-> key, title |-> <<"t">>,
             creators |-> <<[creatorType |-> "author", name |-> <<"a">>]>>,
             date |-> <<"2","0","2","1">>, url |-> <<"u">>]
      [] variant = "bare" ->
            [key |-> key, title |-> <<"s">>,
             creators |-> <<[creatorType |-> "editor", name |-> <<"e">>],
                            [creatorType |-> "author",
                             firstName |-> <<"f">>, lastName |-> <<"l">>]>>,
             date |-> <<>>, url |-> <<>>]
      [] variant = "long" ->
            [key |-> key, title |-> <<"t">>,
             creators |-> <<[creatorType |-> "author", name |-> LongName]>>,
             date |-> <<"2","0","2","1","-","0","3","-","0","4">>,
             url |-> <<"u">>]

Item(key, variant) ==
    [key |-> key, library |-> [id |-> GROUP_ID], data |-> ItemData(key, variant)]

Variants == {"full", "bare", "long"}

\* the properties an earlier create of this program stored for an item
StoredProps(key, variant) ==
    LET properties == paper_to_notion_properties(zotero_item_to_paper(Item(key, variant)))
    IN  [n \in PropNames |->
            IF n \in DOMAIN properties THEN properties[n] ELSE NullCell(n)]

\* a row whose Authors column was retyped in the Board (schema drift)
DriftedProps(key) ==
    [StoredProps(key, "full") EXCEPT ![AUTHORS] = [type |-> "people", people |-> <<>>]]

\* the row of an item at the start: none, the one a create from its
\* present data stored, or one stored from other data ("stale")
RowChoices == {"none", "fresh", "stale"}

StaleOf(variant) == IF variant = "full" THEN "bare" ELSE "full"

RowProps(key, variant, choice) ==
    IF choice = "none" THEN <<>>
    ELSE IF choice = "fresh" THEN <<StoredProps(key, variant)>>
    ELSE <<StoredProps(key, StaleOf(variant))>>

\* the row of the removed paper K9: none, a decodable one, a drifted one
ExtraChoices == {"none", "kept", "drifted"}

ExtraProps(choice) ==
    IF choice = "none" THEN <<>>
    ELSE IF choice = "kept" THEN <<StoredProps(K9, "full")>>
    ELSE <<DriftedProps(K9)>>

\* rows of the Board from their properties, identified by position
MakeRows(props) ==
    [n \in 1..Len(props) |->
        [object |-> "page", id |-> RowId(n), properties |-> props[n]]]

\* the back-link note of an item at the start: none, one whose body holds
\* no link ("text"), one as this program writes it for the n-th row
\* ("link"), one edited to carry the row's identifier with its hyphens
\* ("dashed")
NoteChoices(board) ==
    {<<"none", 0>>, <<"text", 0>>}
        \cup {<<kind, n>> : kind \in {"link", "dashed"}, n \in 1..Len(board)}

InitNoteBody(choice, board) ==
    CASE choice[1] = "text" -> <<"x">>
      [] choice[1] = "link" -> NoteBody([notion_id |-> board[choice[2]].id])
      [] choice[1] = "dashed" ->
            NOTE_HEAD \o NOTION_URL_PREFIX \o board[choice[2]].id \o NOTE_TAIL

InitNote(key, choice, board) ==
    IF choice[1] = "none" THEN <<>>
    ELSE <<[data |-> [key |-> key, itemType |-> "note", parentItem |-> key,
                      tags |-> NOTION_LINK_TAGS,
                      note |-> InitNoteBody(choice, board)]]>>

\* keys of the notes by position, as the Library gave them
KeyNotes(notes) ==
    [n \in 1..Len(notes) |-> [notes[n] EXCEPT !.data.key = NoteKey(n)]]

Init ==
    /\ \E v1 \in Variants, v2 \in Variants,
          r1 \in RowChoices, r2 \in RowChoices, x \in ExtraChoices :
          /\ zitems = <<Item(K1, v1), Item(K2, v2)>>
          /\ rows = MakeRows(RowProps(K1, v1, r1) \o RowProps(K2, v2, r2)
                             \o ExtraProps(x))
    /\ \E n1 \in NoteChoices(rows), n2 \in NoteChoices(rows) :
          znotes = KeyNotes(InitNote(K1, n1, rows) \o InitNote(K2, n2, rows))
    /\ pc = "idle"
    /\ runs = 0
    /\ prev = "none"
    /\ err = "none"
    /\ pages = <<>>
    /\ next_cursor = NoCursor
    /\ notion_papers = <<>>
    /\ zotero_papers = <<>>
    /\ i = 0
    /\ notion_paper = NoneRec
    /\ ops = <<>>
    /\ rows0 = rows
    /\ znotes0 = znotes
    /\ queries = <<>>
    /\ arg = <<>>
    /\ ret = <<>>

\* ------------------------------------------------------------------------
\* main() and synchronize()
\* ------------------------------------------------------------------------
\* main(): a new invocation, after the previous one returned or died
main ==
    /\ pc \in {"idle", "done", "error"}
    /\ runs < MaxRuns
    /\ runs' = runs + 1
    /\ prev' = IF pc = "idle" THEN "none" ELSE IF pc = "done" THEN "ok" ELSE err
    /\ pc' = "query"
    /\ err' = "none"
    /\ pages' = <<>>
    /\ next_cursor' = NoCursor
    /\ notion_papers' = <<>>
    /\ zotero_papers' = <<>>
    /\ i' = 0
    /\ notion_paper' = NoneRec
    /\ ops' = <<>>
    /\ rows0' = rows
    /\ znotes0' = znotes
    /\ queries' = <<>>
    /\ UNCHANGED <<store, unit>>

\* [notion_page_to_paper(page) for page in ...]
DecodePages(all_pages) ==
    [n \in 1..Len(all_pages) |-> notion_page_to_paper(all_pages[n])]

\* get_all_pages has one result page more in hand: it loops while the
\* cursor is not None, then synchronize decodes what it returns
Listed(result, all_pages) ==
    /\ next_cursor' = result.next_cursor
    /\ IF result.next_cursor # NoCursor
       THEN /\ pages' = all_pages
            /\ pc' = "paging"
            /\ UNCHANGED <<notion_papers, err>>
       ELSE /\ pages' = <<>>
            /\ IF \E n \in 1..Len(all_pages) : PageRaises(all_pages[n])
               THEN /\ pc' = "error"
                    /\ err' = "decode"
                    /\ UNCHANGED notion_papers
               ELSE /\ pc' = "zotero"
                    /\ notion_papers' = DecodePages(all_pages)
                    /\ UNCHANGED err
    /\ UNCHANGED <<store, history, unit, zotero_papers, i, notion_paper>>

\* get_all_pages: the first query
QueryFirst ==
    /\ pc = "query"
    /\ queries' = Append(queries, NoCursor)
    /\ LET result == Query(rows, 0)
       IN  Listed(result, result.results)

\* a turn of the while loop that assigns the new results to pages where
\* the code extends pages with them
QueryNext_replaced ==
    /\ pc = "paging"
    /\ queries' = Append(queries, next_cursor)
    /\ LET result == Query(rows, next_cursor)
       IN  Listed(result, result.results)

\* get_all_pages: one turn of the while loop
QueryNext ==
    /\ pc = "paging"
    /\ queries' = Append(queries, next_cursor)
    /\ LET result == Query(rows, next_cursor)
       IN  Listed(result, pages \o result.results)

\* zotero_papers = get_all_zotero_papers(zotero)
ListLibrary ==
    /\ pc = "zotero"
    /\ zotero_papers' = get_all_zotero_papers(zitems, znotes)
    /\ i' = 1
    /\ pc' = "loop"
    /\ UNCHANGED <<store, history, queries, unit, err, pages, next_cursor,
                   notion_papers, notion_paper>>

\* the paper of this turn of the for loop and its row of the snapshot
paper == zotero_papers[i]

board_paper == by_zotero_id(notion_papers, paper.zotero_item_id)

InLoop == pc = "loop" /\ i <= Len(zotero_papers)

Logged(op, id) == Append(ops, [op |-> op, key |-> paper.zotero_item_id, id |-> id])

\* the comparison of line 255 as one that always finds a difference
LinkDiffers_always(p, np) == TRUE

\* paper.notion_id != notion_paper.notion_id
LinkDiffers(p, np) == p.notion_id # np.notion_id

\* create_notion_page without the back-link write that follows it
CreatePage_unlinked ==
    /\ pc = "loop" /\ i <= Len(zotero_papers)
    /\ by_zotero_id(notion_papers, zotero_papers[i].zotero_item_id) = NoneRec
    /\ Len(rows) < MaxRows
    /\ LET page == PagesCreate(rows, paper_to_notion_properties(zotero_papers[i]))
       IN  /\ rows' = Append(rows, page)
           /\ notion_paper' = notion_page_to_paper(page)
           /\ ops' = Append(ops, [op |-> "create",
                                  key |-> zotero_papers[i].zotero_item_id,
                                  id |-> StripHyphens(page.id)])
    /\ pc' = "loop"
    /\ i' = i + 1
    /\ UNCHANGED <<zitems, znotes, runs, prev, rows0, znotes0, err, pages,
                   next_cursor, notion_papers, zotero_papers, queries, unit>>

\* notion_paper is None: create_notion_page
CreatePage ==
    /\ InLoop
    /\ board_paper = NoneRec
    /\ Len(rows) < MaxRows
    /\ LET page == PagesCreate(rows, paper_to_notion_properties(paper))
       IN  /\ rows' = Append(rows, page)
           /\ notion_paper' = notion_page_to_paper(page)
           /\ ops' = Logged("create", StripHyphens(page.id))
    /\ pc' = "note"
    /\ UNCHANGED <<zitems, znotes, runs, prev, rows0, znotes0, err, pages, next_cursor,
                   notion_papers, zotero_papers, i, queries, unit>>

\* paper != notion_paper and not zotero_eq: update_notion_page(notion, paper),
\* then the comparison of the two notion_id; the Board answers an error
\* when page_id names no page
UpdatePage ==
    /\ InLoop
    /\ board_paper # NoneRec
    /\ paper # board_paper
    /\ ~zotero_eq(paper, board_paper)
    /\ ops' = Logged("update", paper.notion_id)
    /\ IF RowsNamed(rows, paper.notion_id) = {}
       THEN /\ pc' = "error"
            /\ err' = "api"
            /\ UNCHANGED <<rows, notion_paper, i>>
       ELSE LET board == PagesUpdate(rows, paper.notion_id,
                                     paper_to_notion_properties(paper))
                page == board[CHOOSE n \in RowsNamed(rows, paper.notion_id) : TRUE]
                updated == notion_page_to_paper(page)
            IN  /\ rows' = board
                /\ notion_paper' = updated
                /\ UNCHANGED err
                /\ IF LinkDiffers(paper, updated)
                   THEN pc' = "note" /\ UNCHANGED i
                   ELSE pc' = "loop" /\ i' = i + 1
    /\ UNCHANGED <<zitems, znotes, runs, prev, rows0, znotes0, pages, next_cursor,
                   notion_papers, zotero_papers, queries, unit>>

\* the write of update_zotero_notion_note(np, zotero) and the next turn
NoteWritten(np) ==
    /\ znotes' = update_zotero_notion_note(np, znotes)
    /\ ops' = Logged(NoteWriteKind(np, znotes), np.notion_id)
    /\ i' = i + 1
    /\ pc' = "loop"

\* the back-link write handed the Library's paper where the code hands it
\* the Paper decoded from the Board's response
WriteBackLink_paper ==
    /\ pc = "note"
    /\ NoteWritten(paper)
    /\ UNCHANGED <<rows, zitems, runs, prev, rows0, znotes0, err, pages, next_cursor,
                   notion_papers, zotero_papers, notion_paper, queries, unit>>

\* update_zotero_notion_note after create_notion_page or update_notion_page
WriteBackLink ==
    /\ pc = "note"
    /\ NoteWritten(notion_paper)
    /\ UNCHANGED <<rows, zitems, runs, prev, rows0, znotes0, err, pages, next_cursor,
                   notion_papers, zotero_papers, notion_paper, queries, unit>>

\* paper != notion_paper but zotero_eq: only the notion_id differ, and
\* update_zotero_notion_note gets the row of the snapshot
RepairLink ==
    /\ InLoop
    /\ board_paper # NoneRec
    /\ paper # board_paper
    /\ zotero_eq(paper, board_paper)
    /\ LinkDiffers(paper, board_paper)
    /\ notion_paper' = board_paper
    /\ NoteWritten(board_paper)
    /\ UNCHANGED <<rows, zitems, runs, prev, rows0, znotes0, err, pages, next_cursor,
                   notion_papers, zotero_papers, queries, unit>>

\* paper == notion_paper: "Already in sync"
InSync ==
    /\ InLoop
    /\ paper = board_paper
    /\ i' = i + 1
    /\ UNCHANGED <<store, history, queries, unit, pc, err, pages, next_cursor,
                   notion_papers, zotero_papers, notion_paper>>

\* the for loop is over: synchronize returns
Return ==
    /\ pc = "loop"
    /\ i > Len(zotero_papers)
    /\ pc' = "done"
    /\ UNCHANGED <<store, history, queries, unit, err, locals>>

\* a remote call is the next statement
RemoteCallPending ==
    \/ pc \in {"query", "paging", "zotero", "note"}
    \/ InLoop /\ paper # board_paper

\* the failure is caught and the call made again: the pass goes on
RemoteFailure_retried ==
    /\ RemoteCallPending
    /\ err' = "remote"
    /\ UNCHANGED <<store, history, queries, unit, locals, pc>>

\* the pending remote call raises (network, authentication, rate limit)
\* before the store changed: nothing catches it
RemoteFailure ==
    /\ RemoteCallPending
    /\ pc' = "error"
    /\ err' = "remote"
    /\ UNCHANGED <<store, history, queries, unit, locals>>

Next ==
    \/ main
    \/ QueryFirst
    \/ QueryNext
    \/ ListLibrary
    \/ CreatePage
    \/ UpdatePage
    \/ WriteBackLink
    \/ RepairLink
    \/ InSync
    \/ Return
    \/ RemoteFailure

Spec == Init /\ [][Next]_vars

TypeOK ==
    /\ pc \in {"idle", "query", "paging", "zotero", "loop", "note", "done", "error"}
    /\ runs \in 0..MaxRuns
    /\ err \in {"none", "remote", "api", "decode"}
    /\ Len(rows) <= MaxRows

\* ------------------------------------------------------------------------
\* Vocabulary of the properties
\* ------------------------------------------------------------------------
\* external ids of the Library
LibKeys == {zitems[n].key : n \in 1..Len(zitems)}

\* external id a row of the Board carries
RowKey(row) == notion_object_to_str(row.properties[ZOTERO_ITEM_ID])

\* rows of a Board that carry external id k
RowsOf(board, k) == {n \in 1..Len(board) : RowKey(board[n]) = k}

\* content-equal, as the specification words it: title, authors, link,
\* published date, external URL and external id all match
ContentEqual(a, b) ==
    \A f \in {"title", "authors", "link", "published_at", "zotero_url",
              "zotero_item_id"} : a[f] = b[f]

\* the write calls issued while the paper with external id k was processed
OpsOf(k) == SelectSeq(ops, LAMBDA o : o.key = k)

Kinds(calls) == [n \in 1..Len(calls) |-> calls[n].op]

\* the paper with external id k has no row in the snapshot of the Board
Unmatched(k) == \A n \in 1..Len(notion_papers) : notion_papers[n].zotero_item_id # k

\* the j-th paper of the Library snapshot has been processed by this pass
Processed(j) == j < i

\* the back-link note id of item k in notes, NoneRec without one
BackLinkNote(notes, k) == find_notion_note(Children(notes, k))

\* C1: a pass that follows a completed pass issues no write at all
C1_Idempotent == prev = "ok" => ops = <<>>

\* C2: a paper with no row in the snapshot gets one create, then one
\* back-link write, and no update: its calls are a prefix of that sequence
\* in every state, and the whole sequence when the pass is complete
C2_CreatePath ==
    \A j \in 1..Len(zotero_papers) :
        LET k == zotero_papers[j].zotero_item_id
            kinds == Kinds(OpsOf(k))
        IN  Unmatched(k) =>
               /\ kinds \in {<<>>, <<"create">>, <<"create", "note_create">>,
                             <<"create", "note_update">>}
               /\ pc = "done" => Len(kinds) = 2

C2_Witness ==
    /\ pc = "done"
    /\ \E j \in 1..Len(zotero_papers) :
          /\ Unmatched(zotero_papers[j].zotero_item_id)
          /\ Len(OpsOf(zotero_papers[j].zotero_item_id)) = 2

\* C3: the Paper decoded from the row a create made is content-equal to
\* the Library paper it was made from
C3_CreatedEqual ==
    (pc = "note" /\ ops # <<>> /\ ops[Len(ops)].op = "create")
        => ContentEqual(paper, notion_paper)

\* C4: every update is addressed to the row of the snapshot that carries
\* the external id of the paper being processed
C4_UpdateTarget ==
    \A n \in 1..Len(ops) :
        ops[n].op = "update" =>
            LET bp == by_zotero_id(notion_papers, ops[n].key)
            IN  bp # NoneRec /\ ops[n].id = bp.notion_id

\* C5: a row whose external id is no Library paper's is as it was when the
\* pass started
C5_Frame ==
    \A n \in 1..Len(rows0) :
        RowKey(rows0[n]) \notin LibKeys => (n <= Len(rows) /\ rows[n] = rows0[n])

\* C6: a paper whose row differs in content and whose back-link id is that
\* row's id gets exactly one update and no back-link write: no other call
\* is ever issued for it, and the update has been once it is processed
C6_ContentOnly ==
    \A j \in 1..Len(zotero_papers) :
        LET p == zotero_papers[j]
            bp == by_zotero_id(notion_papers, p.zotero_item_id)
            kinds == Kinds(OpsOf(p.zotero_item_id))
        IN  (/\ bp # NoneRec
             /\ ~ContentEqual(p, bp)
             /\ p.notion_id = bp.notion_id)
                => /\ kinds \in {<<>>, <<"update">>}
                   /\ Processed(j) => kinds = <<"update">>

C6_Witness ==
    /\ pc = "done"
    /\ \E j \in 1..Len(zotero_papers) :
          LET p == zotero_papers[j]
              bp == by_zotero_id(notion_papers, p.zotero_item_id)
          IN  /\ bp # NoneRec
              /\ ~ContentEqual(p, bp)
              /\ p.notion_id = bp.notion_id
              /\ Kinds(OpsOf(p.zotero_item_id)) = <<"update">>

\* C7: a paper whose row is content-equal and whose item had no back-link
\* note gets no create, no update and one back-link write, after which the
\* item's note links to that row
C7_LinkOnly ==
    \A j \in 1..Len(zotero_papers) :
        LET p == zotero_papers[j]
            k == p.zotero_item_id
            bp == by_zotero_id(notion_papers, k)
            kinds == Kinds(OpsOf(k))
        IN  (/\ bp # NoneRec
             /\ ContentEqual(p, bp)
             /\ BackLinkNote(znotes0, k) = NoneRec)
                => /\ kinds \in {<<>>, <<"note_create">>}
                   /\ Processed(j) =>
                         /\ kinds = <<"note_create">>
                         /\ BackLinkNote(znotes, k) # NoneRec
                         /\ find_notion_id(BackLinkNote(znotes, k).data.note)
                               = bp.notion_id

C7_Witness ==
    /\ pc = "done"
    /\ \E j \in 1..Len(zotero_papers) :
          LET p == zotero_papers[j]
              k == p.zotero_item_id
              bp == by_zotero_id(notion_papers, k)
          IN  /\ bp # NoneRec
              /\ ContentEqual(p, bp)
              /\ BackLinkNote(znotes0, k) = NoneRec
              /\ BackLinkNote(znotes, k) # NoneRec

\* item k has a row with its external id and a back-link note to such a row
Linked(k) ==
    /\ RowsOf(rows, k) # {}
    /\ BackLinkNote(znotes, k) # NoneRec
    /\ \E n \in RowsOf(rows, k) :
          find_notion_id(BackLinkNote(znotes, k).data.note) = StripHyphens(rows[n].id)

\* C8: the pass after one that a remote failure aborted, when no remote
\* call of it fails, completes with every Library paper linked to a row,
\* and creates no row for a paper that had one
C8_Resumable ==
    (prev = "remote" /\ pc \in {"done", "error"} /\ err \notin {"remote", "decode"})
        => /\ pc = "done"
           /\ \A k \in LibKeys : Linked(k)
           /\ \A n \in 1..Len(ops) :
                 ops[n].op = "create" => RowsOf(rows0, ops[n].key) = {}

\* C9: the Board never holds two rows with the external id of one Library
\* paper, and holds one for each after a complete pass
C9_OneRow ==
    /\ \A k \in LibKeys : Cardinality(RowsOf(rows, k)) <= 1
    /\ pc = "done" => \A k \in LibKeys : Cardinality(RowsOf(rows, k)) = 1

\* ------------------------------------------------------------------------
\* update_zotero_notion_note on its own: called MaxCalls times in a row
\* with one Paper, on a Library whose child items are drawn from
\* ChildKinds
\* ------------------------------------------------------------------------
\* child items a Library can hold around the back-link note: a back-link
\* note (with a link, without one), a note with another tag, a note with a
\* second tag, an attachment tagged notion-link, and a back-link note of
\* another item
ChildKinds ==
    LET child(type, parent, tags, body) ==
            [data |-> [key |-> <<>>, itemType |-> type, parentItem |-> parent,
                       tags |-> tags, note |-> body]]
        linked == NoteBody([notion_id |-> RowId(1)])
    IN  {child("note", K1, NOTION_LINK_TAGS, linked),
         child("note", K1, NOTION_LINK_TAGS, <<"x">>),
         child("note", K1, <<[tag |-> "todo"]>>, <<"x">>),
         child("note", K1, NOTION_LINK_TAGS \o <<[tag |-> "todo"]>>, linked),
         child("attachment", K1, NOTION_LINK_TAGS, <<>>),
         child("note", K2, NOTION_LINK_TAGS, linked)}

\* sequences of at most n elements of S
RECURSIVE SeqsUpTo(_, _)
SeqsUpTo(S, n) ==
    IF n = 0 THEN {<<>>}
    ELSE LET shorter == SeqsUpTo(S, n - 1)
         IN  shorter \cup {Append(q, x) : q \in shorter, x \in S}

\* Papers decoded from a row of the Board, as synchronize passes them
BoardPapers ==
    {notion_page_to_paper([object |-> "page", id |-> RowId(n),
                           properties |-> StoredProps(K1, "full")]) : n \in 1..2}

InitCalls ==
    /\ zitems = <<Item(K1, "full"), Item(K2, "full")>>
    /\ rows = MakeRows(<<StoredProps(K1, "full"), StoredProps(K1, "full")>>)
    /\ \E children \in SeqsUpTo(ChildKinds, MaxChildren) : znotes = KeyNotes(children)
    /\ notion_paper \in BoardPapers
    /\ pc = "call"
    /\ runs = 0
    /\ prev = "none"
    /\ err = "none"
    /\ pages = <<>>
    /\ next_cursor = NoCursor
    /\ notion_papers = <<>>
    /\ zotero_papers = <<>>
    /\ i = 0
    /\ ops = <<>>
    /\ rows0 = rows
    /\ znotes0 = znotes
    /\ queries = <<>>
    /\ arg = <<>>
    /\ ret = <<>>

\* one call update_zotero_notion_note(notion_paper, zotero)
NoteCall ==
    /\ pc = "call"
    /\ Len(ops) < MaxCalls
    /\ znotes' = update_zotero_notion_note(notion_paper, znotes)
    /\ ops' = Append(ops, [op |-> NoteWriteKind(notion_paper, znotes),
                           key |-> notion_paper.zotero_item_id,
                           id |-> notion_paper.notion_id])
    /\ UNCHANGED <<rows, zitems, pc, runs, prev, err, locals, rows0, znotes0,
                   queries, unit>>

NextCalls == NoteCall

SpecCalls == InitCalls /\ [][NextCalls]_vars

\* C10: a call of update_zotero_notion_note on an item without a back-link
\* note appends one note, tagged exactly notion-link, under the item, with
\* the link to the Paper's row; a call on an item with one changes the body
\* of that note and nothing else; a call that follows a call with the same
\* Paper changes nothing
C10_NoteIdempotent ==
    [][LET k == notion_paper.zotero_item_id
           old == BackLinkNote(znotes, k)
       IN  /\ IF old = NoneRec
              THEN /\ Len(znotes') = Len(znotes) + 1
                   /\ SubSeq(znotes', 1, Len(znotes)) = znotes
                   /\ LET new == znotes'[Len(znotes')].data
                      IN  /\ new.itemType = "note"
                          /\ new.tags = <<[tag |-> "notion-link"]>>
                          /\ new.parentItem = k
                          /\ find_notion_id(new.note) = notion_paper.notion_id
              ELSE /\ Len(znotes') = Len(znotes)
                   /\ \A n \in 1..Len(znotes) :
                         IF znotes[n].data.key = old.data.key
                         THEN /\ [znotes'[n].data EXCEPT !.note = <<>>]
                                    = [znotes[n].data EXCEPT !.note = <<>>]
                              /\ find_notion_id(znotes'[n].data.note)
                                    = notion_paper.notion_id
                         ELSE znotes'[n] = znotes[n]
           /\ ops # <<>> => znotes' = znotes]_vars

\* two calls in a row were made, the first on an item without a back-link
\* note and with other child items
C10_Witness ==
    /\ pc = "call"
    /\ Kinds(ops) = <<"note_create", "note_update">>
    /\ Len(znotes) > 1

\* ---------------------------------------------------------------------------
\* find_notion_id applied on its own to note bodies
\* ---------------------------------------------------------------------------

MaxIdLen == 3

\* the session's variables while no invocation of main is under way
AtRest ==
    /\ runs = 0
    /\ prev = "none"
    /\ err = "none"
    /\ pages = <<>>
    /\ next_cursor = NoCursor
    /\ notion_papers = <<>>
    /\ zotero_papers = <<>>
    /\ i = 0
    /\ notion_paper = NoneRec
    /\ ops = <<>>
    /\ queries = <<>>

\* what stands after the URL prefix in a body: characters of the pattern's
\* class (a letter, a digit, the hyphen) and one outside of it
BodyIds == SeqsUpTo({"a", "1", "-", "A"}, MaxIdLen)

\* the prefix as notion_url writes it, one the pattern's unescaped "."
\* matches too, and one the pattern does not match
BodyPrefixes ==
    {NOTION_URL_PREFIX,
     <<"h","t","t","p","s",":","/","/","n","o","t","i","o","n","X","s","o","/">>,
     <<"h","t","t","p",":","/","/","n","o","t","i","o","n",".","s","o","/">>}

BodyHeads == {<<>>, NOTE_HEAD, <<"x", "\n">>}

\* the tails: none, the anchor's end, a second link
BodyTails == {<<>>, NOTE_TAIL, <<" ">> \o NOTION_URL_PREFIX \o <<"b", "2">>}

Bodies ==
    {h \o p \o id \o t : h \in BodyHeads, p \in BodyPrefixes,
                          id \in BodyIds, t \in BodyTails}

InitFind ==
    /\ arg \in Bodies
    /\ ret = <<>>
    /\ pc = "find"
    /\ rows = <<>>
    /\ zitems = <<>>
    /\ znotes = <<>>
    /\ rows0 = rows
    /\ znotes0 = znotes
    /\ AtRest

\* one call find_notion_id(arg)
FindId ==
    /\ pc = "find"
    /\ ret' = find_notion_id(arg)
    /\ pc' = "found"
    /\ UNCHANGED <<store, history, locals, err, queries, arg>>

NextFind == FindId

SpecFind == InitFind /\ [][NextFind]_vars

\* the positions of a body where the Board URL pattern matches
MatchStarts(text) == {p \in 1..Len(text) : ReMatchesAt(text, p)}

\* the identifier characters that follow the prefix of the leftmost match
FirstMatchId(text) ==
    LET p == CHOOSE q \in MatchStarts(text) : \A r \in MatchStarts(text) : q <= r
    IN  IdRun(text, p + Len(NOTION_URL_PREFIX))

\* C11: find_notion_id of a body that holds a match of the Board URL pattern
\* is the identifier of the first match with its hyphens stripped, and of a
\* body without a match it is None
C11_FindId ==
    pc = "found" =>
        IF MatchStarts(arg) = {} THEN ret = None
        ELSE ret = StripHyphens(FirstMatchId(arg))

\* ---------------------------------------------------------------------------
\* truncate_text and the cells built with it, applied on their own
\* ---------------------------------------------------------------------------

MaxTextLen == 5
MaxLimit == 5

\* a text of n characters in which neighbours differ
LongText(n) == [k \in 1..n |-> Digits[(k % 9) + 1]]

\* short texts with every limit from 0 up and with the default one, and
\* texts around the default limit with the default one
TruncateArgs ==
    {[text |-> t, limit |-> l] :
        t \in SeqsUpTo({"x", "."}, MaxTextLen), l \in (0..MaxLimit) \cup {limit}}
    \cup {[text |-> LongText(n), limit |-> limit] :
             n \in {limit - 1, limit, limit + 1, limit + 4}}

InitTruncate ==
    /\ arg \in TruncateArgs
    /\ ret = <<>>
    /\ pc = "truncate"
    /\ rows = <<>>
    /\ zitems = <<>>
    /\ znotes = <<>>
    /\ rows0 = rows
    /\ znotes0 = znotes
    /\ AtRest

\* one call truncate_text(text, limit)
Truncate ==
    /\ pc = "truncate"
    /\ ret' = truncate_text(arg.text, arg.limit)
    /\ pc' = "truncated"
    /\ UNCHANGED <<store, history, locals, err, queries, arg>>

\* the properties of a create or an update for a Paper whose authors and
\* external id are the text; to_rich_text_dict leaves the limit at its default
BuildCells ==
    /\ pc = "truncate"
    /\ arg.limit = limit
    /\ ret' = paper_to_notion_properties(
                  Paper(<<"t">>, arg.text, None, None, <<"z">>, arg.text, None))
    /\ pc' = "built"
    /\ UNCHANGED <<store, history, locals, err, queries, arg>>

NextTruncate == Truncate \/ BuildCells

SpecTruncate == InitTruncate /\ [][NextTruncate]_vars

\* text cut to lim characters the way the claim words it
CutTo(out, text, lim) ==
    IF Len(text) <= lim THEN out = text
    ELSE /\ Len(out) = lim
         /\ \A k \in 1..(lim - 3) : out[k] = text[k]
         /\ \A k \in (lim - 2)..lim : k >= 1 /\ out[k] = "."

\* the rich-text cells of a built payload hold at most limit characters and
\* decode to the text cut to limit
CellsCut ==
    pc = "built" =>
        \A n \in {AUTHORS, ZOTERO_ITEM_ID} :
            /\ ret[n].type = "rich_text"
            /\ \A k \in 1..Len(ret[n].rich_text) :
                  Len(ret[n].rich_text[k].text.content) <= limit
            /\ CutTo(notion_object_to_str(ret[n]), arg.text, limit)

\* C12 as worded: for every text and every limit L, truncate_text returns
\* the text unchanged when it has at most L characters and else exactly L
\* characters, the first L - 3 of the text and "..."; the rich-text cells
\* built for a create or an update decode to the text cut to the limit
C12_AnyLimit ==
    /\ pc = "truncated" => CutTo(ret, arg.text, arg.limit)
    /\ CellsCut

\* C12, amended: the same for every limit L of at least 3
C12_Truncation ==
    /\ pc = "truncated" /\ arg.limit >= 3 => CutTo(ret, arg.text, arg.limit)
    /\ CellsCut

\* a text longer than a limit above 3 was cut
C12_Witness ==
    /\ pc = "truncated"
    /\ arg.limit > 3
    /\ Len(arg.text) > arg.limit
    /\ ret # arg.text

\* ---------------------------------------------------------------------------
\* claims about failures of a pass
\* ---------------------------------------------------------------------------

\* a remote call of this invocation has failed
RemoteFailed == err \in {"remote", "api"}

\* C13: when a remote call fails the invocation is over: the failing step
\* leaves the Board and the Library as the completed writes made them, and
\* from then on the invocation issues no call, changes nothing and stays
\* in its error state
C13_AbortOnFailure ==
    /\ [](RemoteFailed => pc = "error")
    /\ [][(RemoteFailed' /\ ~RemoteFailed) => UNCHANGED store]_vars
    /\ [][(RemoteFailed /\ runs' = runs)
             => /\ pc' = "error"
                /\ UNCHANGED <<store, ops, queries, err>>]_vars

\* a call failed after this invocation had written to the Board and to the
\* Library
C13_Witness ==
    /\ RemoteFailed
    /\ pc = "error"
    /\ Len(ops) >= 2
    /\ rows # rows0
    /\ znotes # znotes0

\* the cell types notion_object_to_str decodes
SupportedTypes == {"title", "text", "rich_text", "select", "multi_select", "date", "url"}

\* a row of the board holds a cell of a type that is not decoded
Undecodable(board) ==
    \E n \in 1..Len(board), name \in PropNames :
        board[n].properties[name].type \notin SupportedTypes

\* C14: when a row of the listing holds a cell of an unsupported type, the
\* invocation does not get past the decoding of the listing and writes
\* neither to the Board nor to the Library
C14_DecodeFatal ==
    Undecodable(rows0) =>
        /\ pc \in {"idle", "query", "paging", "error"}
        /\ ops = <<>>
        /\ rows = rows0
        /\ znotes = znotes0

\* decoding has aborted an invocation that had a row to create
C14_Witness ==
    /\ pc = "error"
    /\ err = "decode"
    /\ Undecodable(rows0)
    /\ \E k \in LibKeys : RowsOf(rows, k) = {}

\* ---------------------------------------------------------------------------
\* claims about the update path
\* ---------------------------------------------------------------------------

\* C15: a paper whose row differs in content and whose back-link id is not
\* that row's id (absent, or another row's) gets exactly one update and then
\* exactly one back-link write, after which the item's note links to the
\* row
C15_BothStale ==
    \A j \in 1..Len(zotero_papers) :
        LET p == zotero_papers[j]
            k == p.zotero_item_id
            bp == by_zotero_id(notion_papers, k)
            kinds == Kinds(OpsOf(k))
        IN  (/\ bp # NoneRec
             /\ ~ContentEqual(p, bp)
             /\ p.notion_id # bp.notion_id)
                => /\ kinds \in {<<>>, <<"update">>, <<"update", "note_create">>,
                                 <<"update", "note_update">>}
                   /\ Processed(j) =>
                         /\ Len(kinds) = 2
                         /\ BackLinkNote(znotes, k) # NoneRec
                         /\ find_notion_id(BackLinkNote(znotes, k).data.note)
                               = bp.notion_id

\* the paper of the Library snapshot that carries external id k
LibraryPaper(k) ==
    zotero_papers[CHOOSE j \in 1..Len(zotero_papers) :
                      zotero_papers[j].zotero_item_id = k]

\* C16: right after an update the Paper decoded from the updated row is
\* content-equal to the Library paper the update was made from, also when
\* the Library holds no link or date and the row held one
C16_SourceOfTruth ==
    (ops # <<>> /\ ops[Len(ops)].op = "update" /\ err # "api")
        => ContentEqual(LibraryPaper(ops[Len(ops)].key), notion_paper)

\* ---------------------------------------------------------------------------
\* get_all_pages on its own, over Boards of every size up to MaxRows
\* ---------------------------------------------------------------------------

\* Boards of rows that decode
ListedBoards ==
    {MakeRows(props) :
        props \in SeqsUpTo({StoredProps(K1, "full"), StoredProps(K2, "bare"),
                            StoredProps(K9, "full")}, MaxRows)}

InitPages ==
    /\ rows \in ListedBoards
    /\ zitems = <<>>
    /\ znotes = <<>>
    /\ pc = "query"
    /\ rows0 = rows
    /\ znotes0 = znotes
    /\ arg = <<>>
    /\ ret = <<>>
    /\ AtRest

NextPages == QueryFirst \/ QueryNext

\* a query that was sent is answered, and the loop takes its next turn
SpecPages == InitPages /\ [][NextPages]_vars /\ WF_vars(NextPages)

\* the number of result pages the Board answers a listing of n rows with
PageCount(n) == IF n = 0 THEN 1 ELSE (n + PageSize - 1) \div PageSize

\* the queries sent so far are one per result page, the first without a
\* cursor and each other with the cursor of the answer before it, and the
\* rows in hand are the rows of these pages in the Board's order
PagesInOrder ==
    /\ Len(queries) <= PageCount(Len(rows0))
    /\ \A n \in 1..Len(queries) :
          IF n = 1 THEN queries[n] = NoCursor
          ELSE /\ queries[n] # NoCursor
               /\ queries[n] = Query(rows0, IF n = 2 THEN 0 ELSE queries[n - 1]).next_cursor
    /\ pc = "paging" =>
          /\ Len(pages) = Len(queries) * PageSize
          /\ pages = SubSeq(rows0, 1, Len(pages))
    /\ pc = "zotero" =>
          /\ Len(queries) = PageCount(Len(rows0))
          /\ Len(notion_papers) = Len(rows0)
          /\ \A n \in 1..Len(rows0) : notion_papers[n] = notion_page_to_paper(rows0[n])

\* C17: for every Board the listing loop ends, after exactly one query per
\* result page, each query after the first carrying the cursor of the
\* answer before it, and returns every row once, in the Board's order
C17_Pagination ==
    /\ []PagesInOrder
    /\ <>(pc = "zotero")

\* a listing of several result pages is complete
C17_Witness ==
    /\ pc = "zotero"
    /\ Len(queries) >= 2
    /\ Len(notion_papers) > PageSize

\* ---------------------------------------------------------------------------
\* get_all_zotero_papers on its own, over Libraries of child items
\* ---------------------------------------------------------------------------

\* child items of the two papers K1 and K2 and of K9, which is no top-level
\* item: notes and an attachment, tagged notion-link or not, with a link to
\* a row or without
ListedKinds ==
    LET child(type, parent, tags, body) ==
            [data |-> [key |-> <<>>, itemType |-> type, parentItem |-> parent,
                       tags |-> tags, note |-> body]]
        link(n) == NoteBody([notion_id |-> RowId(n)])
    IN  {child("note", K1, NOTION_LINK_TAGS, link(1)),
         child("note", K1, NOTION_LINK_TAGS, <<"x">>),
         child("note", K1, <<[tag |-> "todo"]>>, link(2)),
         child("note", K1, NOTION_LINK_TAGS \o <<[tag |-> "todo"]>>, link(2)),
         child("attachment", K1, NOTION_LINK_TAGS, link(2)),
         child("note", K2, NOTION_LINK_TAGS, link(2)),
         child("note", K2, <<>>, link(1)),
         child("note", K9, NOTION_LINK_TAGS, link(2))}

InitListing ==
    /\ zitems = <<Item(K1, "full"), Item(K2, "bare")>>
    /\ \E children \in SeqsUpTo(ListedKinds, MaxChildren) : znotes = KeyNotes(children)
    /\ rows = <<>>
    /\ pc = "zotero"
    /\ rows0 = rows
    /\ znotes0 = znotes
    /\ arg = <<>>
    /\ ret = <<>>
    /\ AtRest

NextListing == ListLibrary

SpecListing == InitListing /\ [][NextListing]_vars

\* the notes of the Library whose tag set is exactly {"notion-link"} and
\* whose parent is item k
LinkNotesOf(k) ==
    {m \in 1..Len(znotes) :
        /\ znotes[m].data.itemType = "note"
        /\ {znotes[m].data.tags[t].tag : t \in 1..Len(znotes[m].data.tags)}
              = {"notion-link"}
        /\ znotes[m].data.parentItem = k}

\* C18: the listing of the Library holds one Paper per top-level item, made
\* from that item; its notion_id is read from a note tagged exactly
\* notion-link under that item, and is None when the item has no such note,
\* whatever notes other items or items that are not top-level have
C18_LibraryListing ==
    pc = "loop" =>
        /\ Len(zotero_papers) = Len(zitems)
        /\ \A n \in 1..Len(zitems) :
              LET p == zotero_papers[n]
                  sources == LinkNotesOf(zitems[n].key)
              IN  /\ [p EXCEPT !.notion_id = None] = zotero_item_to_paper(zitems[n])
                  /\ IF sources = {} THEN p.notion_id = None
                     ELSE \E m \in sources :
                             p.notion_id = find_notion_id(znotes[m].data.note)

\* a Library was listed in which one paper has a back-link note, the other
\* has none, and a notion-link note hangs under an item that is not
\* top-level
C18_Witness ==
    /\ pc = "loop"
    /\ \E n \in 1..Len(zotero_papers) : zotero_papers[n].notion_id # None
    /\ \E n \in 1..Len(zotero_papers) :
          /\ zotero_papers[n].notion_id = None
          /\ LinkNotesOf(zotero_papers[n].zotero_item_id) = {}
    /\ \E m \in 1..Len(znotes) :
          /\ znotes[m].data.tags = NOTION_LINK_TAGS
          /\ znotes[m].data.parentItem \notin LibKeys

\* ---------------------------------------------------------------------------
\* claims about the back-link notes a pass writes
\* ---------------------------------------------------------------------------

\* the notes of a Library tagged exactly notion-link under item k
LinkNotes(notes, k) ==
    {m \in 1..Len(notes) :
        /\ notes[m].data.itemType = "note"
        /\ notes[m].data.tags = NOTION_LINK_TAGS
        /\ notes[m].data.parentItem = k}

\* C19: every item of the Library has at most one note tagged exactly
\* notion-link, in every state of every sequence of invocations, complete
\* or aborted; and a step that adds a note to the Library adds one note,
\* under an item that had no such note
C19_SingleNote ==
    /\ [](\A k \in LibKeys : Cardinality(LinkNotes(znotes, k)) <= 1)
    /\ [][znotes' # znotes /\ Len(znotes') # Len(znotes)
             => /\ Len(znotes') = Len(znotes) + 1
                /\ SubSeq(znotes', 1, Len(znotes)) = znotes
                /\ LinkNotes(znotes, znotes'[Len(znotes')].data.parentItem) = {}]_vars

\* in a second invocation an item that had a note keeps its one note and
\* an item that had none has got one
C19_Witness ==
    /\ runs = 2
    /\ pc = "done"
    /\ Len(znotes) > Len(znotes0)
    /\ \E k \in LibKeys : LinkNotes(znotes0, k) # {}
    /\ \A k \in LibKeys : Cardinality(LinkNotes(znotes, k)) = 1

\* this step issues a back-link write
NoteStep ==
    /\ Len(ops') = Len(ops) + 1
    /\ ops'[Len(ops')].op \in {"note_create", "note_update"}

\* C20: the Paper a back-link write carries is decoded from a row of the
\* Board (of the snapshot, or of the response to a create or an update):
\* its notion_id is not None and names a row the Board holds at the write,
\* its external id is that of the Library paper being processed, and the
\* note that is written under that item holds the URL of that row
C20_NamedRows ==
    [][NoteStep =>
          LET np == notion_paper'
              k == paper.zotero_item_id
          IN  /\ np # NoneRec
              /\ \/ \E m \in 1..Len(notion_papers) : notion_papers[m] = np
                 \/ \E m \in 1..Len(rows) : notion_page_to_paper(rows[m]) = np
              /\ np.notion_id # None
              /\ \E m \in 1..Len(rows) : StripHyphens(rows[m].id) = np.notion_id
              /\ np.zotero_item_id = k
              /\ ops'[Len(ops')].key = k
              /\ ops'[Len(ops')].id = np.notion_id
              /\ BackLinkNote(znotes', k) # NoneRec
              /\ BackLinkNote(znotes', k).data.note = NoteBody(np)
              /\ find_notion_id(BackLinkNote(znotes', k).data.note) = np.notion_id]_vars

\* back-links were written after a create and for a row of the snapshot
C20_Witness ==
    /\ runs >= 1
    /\ \E n \in 2..Len(ops) :
          ops[n].op \in {"note_create", "note_update"} /\ ops[n - 1].op = "create"
    /\ \E n \in 1..Len(ops) :
          /\ ops[n].op \in {"note_create", "note_update"}
          /\ (n = 1 \/ ops[n - 1].op \in {"note_create", "note_update"})

====
